---- MODULE Spec2Model ----
(***************************************************************************)
(* DynamicArray<T, Alloc> (src/cpp/src/DynamicArray.h) over a flat memory  *)
(* of MemSize element cells served by the allocator.  A pointer is a cell  *)
(* address (NULL for nullptr); head, tail and tailCap are the three        *)
(* members of each container.  Every public operation is one action that   *)
(* runs the whole member function, the allocator calls it makes included.  *)
(* Accesses outside an allocation land on whatever cell is at that address.*)
(***************************************************************************)
EXTENDS Integers, Sequences, FiniteSets, TLC

MemSize == 4
MaxN == 2
NumValues == 2
NumArr == 2
MaxPushes == 17

Arr == 1..NumArr
Values == 1..NumValues
Addr == 1..MemSize

NULL == 0
RAW == 0
NoAlloc == -1
OutOfRange == -1
Crash == -2

VARIABLES alive, head, tail, tailCap, mem, allocs, ub, pushed, copied

vars == <<alive, head, tail, tailCap, mem, allocs, ub, pushed, copied>>

(***************************************************************************)
(* The allocator: std::allocator<T> over the flat memory.                  *)
(***************************************************************************)

\* cells an allocation of n elements occupies (a zero-size request still
\* yields a distinct address)
Footprint(n) == IF n = 0 THEN 1 ELSE n

Covered(al, p) ==
    \E b \in Addr : al[b] # NoAlloc /\ b <= p /\ p < b + Footprint(al[b])

FreeRange(al, base, n) ==
    /\ base \in Addr
    /\ base + Footprint(n) - 1 <= MemSize
    /\ \A p \in base..(base + Footprint(n) - 1) : ~Covered(al, p)

\* a heap is the memory, the live allocations and the allocator calls so far
Heap(m, al, cs) == [mem |-> m, allocs |-> al, calls |-> cs]

allocate(H, base, n) ==
    [mem |-> [p \in Addr |-> IF base <= p /\ p < base + Footprint(n)
                             THEN RAW ELSE H.mem[p]],
     allocs |-> [p \in Addr |-> IF p = base THEN n ELSE H.allocs[p]],
     calls |-> Append(H.calls, <<"allocate", base, n>>)]

deallocate(H, p, n) ==
    IF p \in Addr /\ H.allocs[p] # NoAlloc
    THEN [mem |-> [q \in Addr |-> IF p <= q /\ q < p + Footprint(H.allocs[p])
                                  THEN RAW ELSE H.mem[q]],
          allocs |-> [H.allocs EXCEPT ![p] = NoAlloc],
          calls |-> Append(H.calls, <<"deallocate", p, n>>)]
    ELSE [H EXCEPT !.calls = Append(H.calls, <<"deallocate", p, n>>)]

construct(H, p, v) ==
    [mem |-> [q \in Addr |-> IF q = p THEN v ELSE H.mem[q]],
     allocs |-> H.allocs,
     calls |-> Append(H.calls, <<"construct", p, v>>)]

destroy(H, p) ==
    [mem |-> [q \in Addr |-> IF q = p THEN RAW ELSE H.mem[q]],
     allocs |-> H.allocs,
     calls |-> Append(H.calls, <<"destroy", p, 0>>)]

\* reading a cell that holds no constructed element yields garbage g
Read(H, p, g) == IF p \in Addr /\ H.mem[p] # RAW THEN H.mem[p] ELSE g

(***************************************************************************)
(* Observers                                                               *)
(***************************************************************************)

size(c) == tail[c] - head[c]

capacity(c) == tailCap[c] - head[c]

\* operator[] on the current state: the element at index i, 0-based
Elem(c, i) == mem[head[c] + i]

\* forward iteration over [begin, end)
Elems(c) == [i \in 1..size(c) |-> mem[head[c] + i - 1]]

\* the container c as the member functions see it: its three members and
\* the heap, with no allocator call made yet
This(c) == [head |-> head[c], tail |-> tail[c], tailCap |-> tailCap[c],
            heap |-> Heap(mem, allocs, <<>>)]

(***************************************************************************)
(* Private member functions                                                *)
(***************************************************************************)

RECURSIVE FillLoop(_, _, _, _, _)
\* for (i = 0; i < n; ++i) alloc.construct(head + i, value)
FillLoop(H, hd, i, n, value) ==
    IF i < n THEN FillLoop(construct(H, hd + i, value), hd, i + 1, n, value)
    ELSE H

RECURSIVE CopyLoop(_, _, _, _, _, _)
\* for (i = 0; i < n; ++i) alloc.construct(dst + i, src[i])
CopyLoop(H, dst, src, i, n, g) ==
    IF i < n
    THEN CopyLoop(construct(H, dst + i, Read(H, src + i, g)), dst, src, i + 1, n, g)
    ELSE H

\* the destroy loop with its body left out
DestroyLoop_none(H, hd, i, low) == H

RECURSIVE DestroyLoop(_, _, _, _)
\* for (i = size(); i-- > low; ) alloc.destroy(head + i)
DestroyLoop(H, hd, i, low) ==
    IF i > low THEN DestroyLoop(destroy(H, hd + i - 1), hd, i - 1, low)
    ELSE H

\* static T * Init (size_type n, T const & value)
InitFill(H, base, n, value) == FillLoop(allocate(H, base, n), base, 0, n, value)

\* static T * Init (DynamicArray const & arr)
InitCopy(H, base, o, g) ==
    CopyLoop(allocate(H, base, o.tail - o.head), base, o.head, 0, o.tail - o.head, g)

\* Realloc without its copy loop: the new buffer is adopted empty-handed
Realloc_nocopy(t, newCapacity, base, g) ==
    LET n == t.tail - t.head
    IN [head |-> base, tail |-> base + n, tailCap |-> base + newCapacity,
        heap |-> allocate(t.heap, base, newCapacity)]

Realloc(t, newCapacity, base, g) ==
    LET n == t.tail - t.head
        H == CopyLoop(allocate(t.heap, base, newCapacity), base, t.head, 0, n, g)
    IN [head |-> base, tail |-> base + n, tailCap |-> base + newCapacity, heap |-> H]

\* growth by doubling
AmortizedGrowSize_double(t) == LET n == t.tail - t.head IN n + n + 1

AmortizedGrowSize(t) == LET n == t.tail - t.head IN (n \div 2) + n + 1

\* the capacity after k reallocations by push_back from the empty container:
\* each happens when size() == capacity()
RECURSIVE CapacityAfter(_)
CapacityAfter(k) ==
    IF k = 0 THEN 0
    ELSE AmortizedGrowSize([head |-> 0, tail |-> CapacityAfter(k - 1)])

\* the elements Realloc copies over `left` more push_back calls on a container
\* of size n and capacity cap that has copied `moved` so far
RECURSIVE Relocations(_, _, _, _)
Relocations(n, cap, moved, left) ==
    IF left = 0 THEN moved
    ELSE IF n = cap
    THEN Relocations(n + 1, AmortizedGrowSize([head |-> 0, tail |-> n]),
                     moved + n, left - 1)
    ELSE Relocations(n + 1, cap, moved, left - 1)

AmortizedGrow(t, base, g) == Realloc(t, AmortizedGrowSize(t), base, g)

Clear(t) ==
    [t EXCEPT !.heap = deallocate(DestroyLoop(t.heap, t.head, t.tail - t.head, 0),
                                  t.head, t.tailCap - t.head)]

\* RangeGuard throws exactly when this holds
RangeGuard(t, index) == index > t.tail - t.head

PushBack(t, value, base, g) ==
    LET u == IF t.tail - t.head = t.tailCap - t.head
             THEN AmortizedGrow(t, base, g) ELSE t
    IN [u EXCEPT !.heap = construct(u.heap, u.tail, value), !.tail = u.tail + 1]

(***************************************************************************)
(* Public member functions, as functions of the container before the call  *)
(***************************************************************************)

Sentinel(t) == [t EXCEPT !.head = NULL, !.tail = NULL, !.tailCap = NULL]

\* DynamicArray (size_type n, T const & value)
ctor_fill(t, n, value, base) ==
    [head |-> base, tail |-> base + n, tailCap |-> base + n,
     heap |-> InitFill(t.heap, base, n, value)]

\* DynamicArray (DynamicArray const & other)
ctor_copy(t, o, base, g) ==
    [head |-> base, tail |-> base + (o.tail - o.head),
     tailCap |-> base + (o.tailCap - o.head),
     heap |-> InitCopy(t.heap, base, o, g)]

\* operator= (DynamicArray const & other); same says that other is *this.
\* other.size() is read after head is written, so in a self-assignment it is
\* the old tail minus the new head.
assign_copy(t, o, same, base, g) ==
    LET n == IF same THEN o.tail - base ELSE o.tail - o.head IN
    [head |-> base, tail |-> base + n, tailCap |-> base + n,
     heap |-> InitCopy(t.heap, base, o, g)]

\* move construction that leaves other's members as they are
ctor_move_keeps(t, o) ==
    [this |-> [t EXCEPT !.head = o.head, !.tail = o.tail, !.tailCap = o.tailCap],
     other |-> o]

\* DynamicArray (DynamicArray && other): what this and other become
ctor_move(t, o) ==
    [this |-> [t EXCEPT !.head = o.head, !.tail = o.tail, !.tailCap = o.tailCap],
     other |-> Sentinel(o)]

\* move-assignment that leaves other's members as they are
assign_move_keeps(t, o) ==
    [this |-> [t EXCEPT !.head = o.head, !.tail = o.tail, !.tailCap = o.tailCap],
     other |-> o]

\* operator= (DynamicArray && other): what this and other become
assign_move(t, o) ==
    [this |-> [t EXCEPT !.head = o.head, !.tail = o.tail, !.tailCap = o.tailCap],
     other |-> Sentinel(o)]

clear(t) == Sentinel(Clear(t))

release(t) == Sentinel(t)

\* reserve that grows by the amortized schedule instead of to n
reserve_amortized(t, n, base, g) ==
    IF n > t.tail - t.head THEN AmortizedGrow(t, base, g) ELSE t

\* reserve calls Reallocate(n), a name the file does not define; Realloc is
\* the reallocation it has
reserve(t, n, base, g) ==
    IF n > t.tail - t.head THEN Realloc(t, n, base, g) ELSE t

\* the grow branch calls Reallocate(newSize), read as Realloc; the shrink
\* branch ends with tail = head + low, where low is not declared: it is read
\* as newSize, the bound the destroy loop stops at
resize(t, newSize, value, base, g) ==
    LET oldSize == t.tail - t.head IN
    IF newSize > oldSize
    THEN LET u == Realloc(t, newSize, base, g)
         IN [u EXCEPT !.heap = FillLoop(u.heap, u.head, oldSize, newSize, value),
                      !.tail = u.head + newSize]
    ELSE IF newSize < oldSize
    THEN [t EXCEPT !.heap = DestroyLoop(t.heap, t.head, oldSize, newSize),
                   !.tail = t.head + newSize]
    ELSE t

push_back(t, value, base, g) == PushBack(t, value, base, g)

pop_back(t) == [t EXCEPT !.heap = destroy(t.heap, t.tail - 1), !.tail = t.tail - 1]

\* at(index): the exception, a crash on a null head, or the cell's content
at(t, index, g) ==
    IF RangeGuard(t, index) THEN OutOfRange
    ELSE IF t.head = NULL THEN Crash
    ELSE Read(t.heap, t.head + index, g)

(***************************************************************************)
(* The same member functions when a call of theirs throws.  k names the    *)
(* call: 0 is alloc.allocate, k >= 1 is the k-th alloc.construct of the    *)
(* operation.  The result is the container and the heap as the exception   *)
(* leaves them; no member function catches anything.                       *)
(***************************************************************************)

Realloc_throw(t, newCapacity, base, g, k) ==
    IF k = 0 THEN t
    ELSE [t EXCEPT !.heap = CopyLoop(allocate(t.heap, base, newCapacity),
                                     base, t.head, 0, k - 1, g)]

\* the calls of reserve(n) that can throw
reserve_throwers(t, n) ==
    IF n > t.tail - t.head THEN 0..(t.tail - t.head) ELSE {}

reserve_throw(t, n, base, g, k) == Realloc_throw(t, n, base, g, k)

\* the calls of resize(newSize, value) that can throw
resize_throwers(t, newSize) ==
    IF newSize > t.tail - t.head THEN 0..newSize ELSE {}

resize_throw(t, newSize, value, base, g, k) ==
    LET oldSize == t.tail - t.head IN
    IF k <= oldSize THEN Realloc_throw(t, newSize, base, g, k)
    ELSE LET u == Realloc(t, newSize, base, g)
         IN [u EXCEPT !.heap = FillLoop(u.heap, u.head, oldSize, k - 1, value)]

\* the calls of push_back(value) that can throw; the last is the construct
\* of the new element
push_back_throwers(t) ==
    IF t.tail - t.head = t.tailCap - t.head
    THEN 0..(t.tail - t.head + 1) ELSE {1}

push_back_throw(t, value, base, g, k) ==
    IF t.tail - t.head = t.tailCap - t.head
    THEN IF k <= t.tail - t.head
         THEN Realloc_throw(t, AmortizedGrowSize(t), base, g, k)
         ELSE AmortizedGrow(t, base, g)
    ELSE t

\* the calls of operator= (DynamicArray const & other) that can throw
assign_copy_throwers(o) == 0..(o.tail - o.head)

assign_copy_throw(t, o, base, g, k) ==
    IF k = 0 THEN t
    ELSE [t EXCEPT !.heap = CopyLoop(allocate(t.heap, base, o.tail - o.head),
                                     base, o.head, 0, k - 1, g)]

(***************************************************************************)
(* The program: any sequence of public operations on the containers        *)
(***************************************************************************)

\* pushed[c] when the run since c's default construction is not made of
\* push_back calls on c alone
Stale == <<RAW>>

AllStale == [d \in Arr |-> Stale]

\* copied when the run is not a copy followed by mutations of the copy alone
NoCopy == [src |-> 0, dst |-> 0, snap |-> <<>>]

\* base is where the operation's allocate call (if it makes one) finds room
AllocOk(cs, base) ==
    LET A == {k \in 1..Len(cs) : cs[k][1] = "allocate"} IN
    IF base = NULL THEN A = {}
    ELSE /\ A # {}
         /\ \A k \in A : cs[k][2] = base /\ FreeRange(allocs, base, cs[k][3])

Feasible(r, base) == AllocOk(r.heap.calls, base)

\* p is a cell of the allocation of n elements at base
InAlloc(al, base, p) ==
    base \in Addr /\ al[base] # NoAlloc /\ base <= p /\ p < base + al[base]

\* The operation that took the container from t to r broke a precondition of
\* the allocator: it constructed outside the allocation it holds afterwards,
\* destroyed outside the one it held before, or passed deallocate a size
\* other than the allocated one.  What the program does from there on is
\* undefined.
Undefined(t, r) ==
    \E k \in 1..Len(r.heap.calls) :
        LET call == r.heap.calls[k] IN
        \/ call[1] = "construct" /\ ~InAlloc(r.heap.allocs, r.head, call[2])
        \/ call[1] = "destroy" /\ ~InAlloc(t.heap.allocs, t.head, call[2])
        \/ call[1] = "deallocate" /\ call[2] # NULL
              /\ call[3] # t.heap.allocs[call[2]]

\* where an allocate call can find room at all, and nullptr for an operation
\* that makes none
Bases == {b \in Addr : ~Covered(allocs, b)} \cup {NULL}

\* every element of d is a constructed cell of d's own allocation
Clean(d) ==
    \/ size(d) = 0
    \/ /\ head[d] \in Addr
       /\ allocs[head[d]] # NoAlloc
       /\ size(d) <= allocs[head[d]]
       /\ \A i \in 0..(size(d) - 1) : mem[head[d] + i] # RAW

\* the garbage a copy of d's elements can read: none matters when d is clean
Garbage(d) == IF Clean(d) THEN {1} ELSE Values

\* A cell that is no live element of a container is out of the program's
\* sight: what it holds is indeterminate.
Scrub(m, hd, tl) ==
    [p \in Addr |-> IF \E d \in Arr : hd[d] <= p /\ p < tl[d] THEN m[p] ELSE RAW]

\* an execution ends where its behaviour becomes undefined
Running == ~ub

\* the members of c and the heap after the operation
Write(c, r) ==
    /\ head' = [head EXCEPT ![c] = r.head]
    /\ tail' = [tail EXCEPT ![c] = r.tail]
    /\ tailCap' = [tailCap EXCEPT ![c] = r.tailCap]
    /\ allocs' = r.heap.allocs
    /\ mem' = Scrub(r.heap.mem, head', tail')

Commit(c, r) == Write(c, r) /\ ub' = Undefined(This(c), r)

\* the run stays a copy followed by mutations of the copy when c is the copy
KeepCopied(c) == copied' = IF copied.dst = c THEN copied ELSE NoCopy

DefaultConstruct(c) ==
    /\ Running /\ ~alive[c]
    /\ alive' = [alive EXCEPT ![c] = TRUE]
    /\ Commit(c, Sentinel(This(c)))
    /\ pushed' = [AllStale EXCEPT ![c] = <<>>]
    /\ copied' = NoCopy

FillConstruct(c) ==
    /\ Running /\ ~alive[c]
    /\ \E n \in 0..MaxN, value \in Values, base \in Bases \ {NULL} :
         LET r == ctor_fill(This(c), n, value, base) IN
         /\ Feasible(r, base)
         /\ Commit(c, r)
    /\ alive' = [alive EXCEPT ![c] = TRUE]
    /\ pushed' = AllStale
    /\ copied' = NoCopy

CopyConstruct(c) ==
    /\ Running /\ ~alive[c]
    /\ \E other \in Arr \ {c}, base \in Bases \ {NULL} : \E g \in Garbage(other) :
         LET r == ctor_copy(This(c), This(other), base, g) IN
         /\ alive[other]
         /\ Feasible(r, base)
         /\ Commit(c, r)
         /\ copied' = [src |-> other, dst |-> c,
                       snap |-> [i \in 1..size(other) |-> mem'[head'[other] + i - 1]]]
    /\ alive' = [alive EXCEPT ![c] = TRUE]
    /\ pushed' = AllStale

\* the members of c and of other after a move m; other is written last, as
\* in the code, which decides the case other = c
CommitMove(c, other, m) ==
    /\ head' = [[head EXCEPT ![c] = m.this.head] EXCEPT ![other] = m.other.head]
    /\ tail' = [[tail EXCEPT ![c] = m.this.tail] EXCEPT ![other] = m.other.tail]
    /\ tailCap' = [[tailCap EXCEPT ![c] = m.this.tailCap]
                      EXCEPT ![other] = m.other.tailCap]
    /\ allocs' = m.this.heap.allocs
    /\ mem' = Scrub(m.this.heap.mem, head', tail')
    /\ ub' = Undefined(This(c), m.this)

MoveConstruct(c) ==
    /\ Running /\ ~alive[c]
    /\ \E other \in Arr \ {c} :
         /\ alive[other]
         /\ CommitMove(c, other, ctor_move(This(c), This(other)))
    /\ alive' = [alive EXCEPT ![c] = TRUE]
    /\ pushed' = AllStale
    /\ copied' = NoCopy

Destructor(c) ==
    /\ Running /\ alive[c]
    /\ Commit(c, Sentinel(Clear(This(c))))
    /\ alive' = [alive EXCEPT ![c] = FALSE]
    /\ pushed' = AllStale
    /\ copied' = NoCopy

CopyAssign(c) ==
    /\ Running /\ alive[c]
    /\ \E other \in Arr, base \in Bases \ {NULL} : \E g \in Garbage(other) :
         LET r == assign_copy(This(c), This(other), other = c, base, g) IN
         /\ alive[other]
         /\ Feasible(r, base)
         /\ Write(c, r)
         \* other.size() subtracts pointers into two different arrays when
         \* other is *this
         /\ ub' = (other = c \/ Undefined(This(c), r))
         /\ copied' = IF other = c THEN NoCopy
                      ELSE [src |-> other, dst |-> c,
                            snap |-> [i \in 1..size(other) |->
                                        mem'[head'[other] + i - 1]]]
    /\ pushed' = AllStale
    /\ UNCHANGED alive

MoveAssign(c) ==
    /\ Running /\ alive[c]
    /\ \E other \in Arr :
         /\ alive[other]
         /\ CommitMove(c, other, assign_move(This(c), This(other)))
    /\ pushed' = AllStale
    /\ copied' = NoCopy
    /\ UNCHANGED alive

ClearOp(c) ==
    /\ Running /\ alive[c]
    /\ Commit(c, clear(This(c)))
    /\ pushed' = AllStale
    /\ KeepCopied(c)
    /\ UNCHANGED alive

ReleaseOp(c) ==
    /\ Running /\ alive[c]
    /\ Commit(c, release(This(c)))
    /\ pushed' = AllStale
    /\ copied' = NoCopy
    /\ UNCHANGED alive

ReserveOp(c) ==
    /\ Running /\ alive[c]
    /\ \E n \in 0..MaxN, base \in Bases, g \in Garbage(c) :
         LET r == reserve(This(c), n, base, g) IN
         /\ Feasible(r, base)
         /\ Commit(c, r)
    /\ pushed' = AllStale
    /\ copied' = NoCopy
    /\ UNCHANGED alive

ResizeOp(c) ==
    /\ Running /\ alive[c]
    /\ \E newSize \in 0..MaxN, value \in Values, base \in Bases, g \in Garbage(c) :
         LET r == resize(This(c), newSize, value, base, g) IN
         /\ Feasible(r, base)
         /\ Commit(c, r)
    /\ pushed' = AllStale
    /\ KeepCopied(c)
    /\ UNCHANGED alive

PushBackOp(c) ==
    /\ Running /\ alive[c]
    /\ \E value \in Values, base \in Bases, g \in Garbage(c) :
         LET r == push_back(This(c), value, base, g) IN
         /\ Feasible(r, base)
         /\ Commit(c, r)
         /\ pushed' = [AllStale EXCEPT
                         ![c] = IF pushed[c] = Stale THEN Stale
                                ELSE Append(pushed[c], value)]
    /\ KeepCopied(c)
    /\ UNCHANGED alive

\* precondition of pop_back: the container is not empty
PopBackOp(c) ==
    /\ Running /\ alive[c]
    /\ size(c) > 0
    /\ Commit(c, pop_back(This(c)))
    /\ pushed' = AllStale
    /\ KeepCopied(c)
    /\ UNCHANGED alive

\* a[index] = value through the reference operator[] returns;
\* precondition: index < size()
StoreOp(c) ==
    /\ Running /\ alive[c]
    /\ \E index \in 0..(size(c) - 1), value \in Values :
         /\ head[c] + index \in Addr
         /\ mem' = [mem EXCEPT ![head[c] + index] = value]
    /\ pushed' = AllStale
    /\ KeepCopied(c)
    /\ UNCHANGED <<alive, head, tail, tailCap, allocs, ub>>

\* at(index) returns or throws and changes nothing
AtOp(c) ==
    /\ Running /\ alive[c]
    /\ \E index \in 0..MaxN, g \in Values :
         at(This(c), index, g) \in {OutOfRange, Crash} \cup Values
    /\ UNCHANGED vars

\* what an operation on c that threw leaves behind
Thrown(c, r) ==
    /\ Write(c, r)
    /\ pushed' = AllStale
    /\ copied' = NoCopy
    /\ UNCHANGED <<alive, ub>>

ReserveThrows(c) ==
    /\ Running /\ alive[c]
    /\ \E n \in 0..MaxN, base \in Bases, g \in Garbage(c) :
         \E k \in reserve_throwers(This(c), n) :
             LET r == reserve_throw(This(c), n, base, g, k) IN
             Feasible(r, base) /\ Thrown(c, r)

ResizeThrows(c) ==
    /\ Running /\ alive[c]
    /\ \E newSize \in 0..MaxN, value \in Values, base \in Bases, g \in Garbage(c) :
         \E k \in resize_throwers(This(c), newSize) :
             LET r == resize_throw(This(c), newSize, value, base, g, k) IN
             Feasible(r, base) /\ Thrown(c, r)

PushBackThrows(c) ==
    /\ Running /\ alive[c]
    /\ \E value \in Values, base \in Bases, g \in Garbage(c) :
         \E k \in push_back_throwers(This(c)) :
             LET r == push_back_throw(This(c), value, base, g, k) IN
             Feasible(r, base) /\ Thrown(c, r)

CopyAssignThrows(c) ==
    /\ Running /\ alive[c]
    /\ \E other \in Arr, base \in Bases : \E g \in Garbage(other) :
         \E k \in assign_copy_throwers(This(other)) :
             LET r == assign_copy_throw(This(c), This(other), base, g, k) IN
             alive[other] /\ Feasible(r, base) /\ Thrown(c, r)

Init ==
    /\ alive = [c \in Arr |-> TRUE]
    /\ head = [c \in Arr |-> NULL]
    /\ tail = [c \in Arr |-> NULL]
    /\ tailCap = [c \in Arr |-> NULL]
    /\ mem = [p \in Addr |-> RAW]
    /\ allocs = [p \in Addr |-> NoAlloc]
    /\ pushed = [c \in Arr |-> <<>>]
    /\ copied = NoCopy
    /\ ub = FALSE

Next ==
    \E c \in Arr :
        \/ DefaultConstruct(c)
        \/ FillConstruct(c)
        \/ CopyConstruct(c)
        \/ MoveConstruct(c)
        \/ Destructor(c)
        \/ CopyAssign(c)
        \/ MoveAssign(c)
        \/ ClearOp(c)
        \/ ReleaseOp(c)
        \/ ReserveOp(c)
        \/ ResizeOp(c)
        \/ PushBackOp(c)
        \/ PopBackOp(c)
        \/ StoreOp(c)
        \/ AtOp(c)
        \/ ReserveThrows(c)
        \/ ResizeThrows(c)
        \/ PushBackThrows(c)
        \/ CopyAssignThrows(c)

Spec == Init /\ [][Next]_vars

(***************************************************************************)
(* Properties.  An operation's claim is stated over the container it       *)
(* returns from every reachable state in which it can be called.           *)
(***************************************************************************)

\* the elements of the container t, in index order
ElemsOf(t) == [i \in 1..(t.tail - t.head) |-> t.heap.mem[t.head + i - 1]]

\* the calls of one kind among cs, in order
RECURSIVE CallsOf(_, _)
CallsOf(cs, kind) ==
    IF cs = <<>> THEN <<>>
    ELSE IF Head(cs)[1] = kind THEN <<Head(cs)>> \o CallsOf(Tail(cs), kind)
    ELSE CallsOf(Tail(cs), kind)

\* a state in which the public operations of c can be called
Callable(c) == Running /\ alive[c]

\* In a state that no undefined step produced, the elements of a container
\* are constructed cells of the allocation its head points to.
WellFormed ==
    Running => \A c \in Arr :
        /\ Clean(c)
        /\ size(c) >= 0
        /\ head[c] = NULL => tail[c] = NULL /\ tailCap[c] = NULL
        /\ head[c] # NULL => alive[c] /\ allocs[head[c]] # NoAlloc

\* C1: from a default-constructed container, N push_back calls give size N
\* and the pushed values in insertion order.
C1_PushBackKeepsInsertionOrder ==
    \A c \in Arr :
        pushed[c] # Stale =>
            /\ size(c) = Len(pushed[c])
            /\ \A i \in 1..Len(pushed[c]) : mem[head[c] + i - 1] = pushed[c][i]

\* two different values pushed, the second push having reallocated
C1_Witness ==
    \E c \in Arr :
        /\ Len(pushed[c]) = 2
        /\ pushed[c][1] # pushed[c][2]
        /\ capacity(c) = 2

\* what C2 claims of r, the container reserve(n) returns for c
ReserveGrows(c, n, r) ==
    /\ r.tailCap - r.head = n
    /\ r.tail - r.head = size(c)
    /\ ElemsOf(r) = Elems(c)

C3_ReserveWithinCapacityIsNoOp ==
    \A c \in Arr, n \in 0..MaxN, base \in Bases :
        \A g \in Garbage(c) :
            LET r == reserve(This(c), n, base, g) IN
            (Callable(c) /\ n <= capacity(c) /\ Feasible(r, base)) =>
                r = This(c)

\* the value at(index) must give by C4: the exception from size() on, the
\* element below
AtContract(c, index) == IF index >= size(c) THEN OutOfRange ELSE Elem(c, index)

\* C4: at(index) signals out-of-range for every index >= size() and returns
\* element index for every index < size().
C4_AtChecksRange ==
    \A c \in Arr, index \in 0..MaxN, g \in Values :
        (Callable(c) /\ head[c] + index <= MemSize) =>
            at(This(c), index, g) = AtContract(c, index)

\* the container t seen in the heap of r
In(t, r) == [t EXCEPT !.heap = r.heap]

\* b is an element-wise copy of a in its own buffer, and a is as it was
IsCopy(a, b) ==
    /\ b.tail - b.head = size(a)
    /\ ElemsOf(b) = Elems(a)
    /\ b.head # head[a]
    /\ ElemsOf(In(This(a), b)) = Elems(a)

\* C5: after b = a or b(a), b has a's size and elements in a buffer of its
\* own, a is unchanged, and no later mutation of b (push_back, pop_back,
\* resize, clear, element writes) changes a's size or elements.
C5_CopyRoundTrip ==
    /\ \A a \in Arr, b \in Arr, base \in Bases : \A g \in Garbage(a) :
          LET r == IF alive[b] THEN assign_copy(This(b), This(a), FALSE, base, g)
                   ELSE ctor_copy(This(b), This(a), base, g)
          IN (Callable(a) /\ a # b /\ Feasible(r, base)) => IsCopy(a, r)
    /\ copied # NoCopy =>
          /\ size(copied.src) = Len(copied.snap)
          /\ Elems(copied.src) = copied.snap

\* what C6 claims of m, the outcome of moving a into b
IsMove(a, b, m) ==
    /\ m.other.head = NULL /\ m.other.tail = NULL /\ m.other.tailCap = NULL
    /\ m.this.tail - m.this.head = size(a)
    /\ m.this.tailCap - m.this.head = capacity(a)
    /\ ElemsOf(m.this) = Elems(a)
    /\ m.this.heap = This(b).heap

\* C6: after b = std::move(a) or b(std::move(a)), a is the empty sentinel and
\* b has a's former elements in order, its size and its capacity; the
\* transfer constructs and destroys nothing.
C6_MoveRoundTrip ==
    \A a \in Arr, b \in Arr :
        LET m == IF alive[b] THEN assign_move(This(b), This(a))
                 ELSE ctor_move(This(b), This(a))
        IN (Callable(a) /\ a # b) => IsMove(a, b, m)

\* a container with two different elements is moved into one that holds a
\* buffer
C6_Witness ==
    \E a \in Arr, b \in Arr :
        /\ Callable(a) /\ Callable(b) /\ a # b
        /\ size(a) = 2 /\ Elem(a, 0) # Elem(a, 1)
        /\ head[b] # NULL
        /\ IsMove(a, b, assign_move(This(b), This(a)))

\* the destroy calls of the elements [low, n) of the buffer at hd, last first
DestroyCalls(hd, n, low) == [k \in 1..(n - low) |-> <<"destroy", hd + n - k, 0>>]

\* C7: clear() destroys every live element exactly once, releases the
\* allocation and leaves the empty sentinel; a following push_back gives
\* size() == 1.
C7_ClearReleasesEverything ==
    \A c \in Arr :
        LET r == clear(This(c)) IN
        Callable(c) =>
            /\ ~Undefined(This(c), r)
            /\ CallsOf(r.heap.calls, "destroy") = DestroyCalls(head[c], size(c), 0)
            /\ head[c] # NULL => r.heap.allocs[head[c]] = NoAlloc
            /\ r.head = NULL /\ r.tail = NULL /\ r.tailCap = NULL
            /\ \A value \in Values, base \in Addr :
                  LET u == push_back([r EXCEPT !.heap.calls = <<>>], value, base, 1)
                  IN FreeRange(r.heap.allocs, base, 1) => u.tail - u.head = 1

\* the larger of two numbers
Max(x, y) == IF x >= y THEN x ELSE y

\* C8: resize(newSize, value) with newSize > size() gives size newSize, keeps
\* the old elements, sets the new ones to value and gives capacity
\* max(oldCapacity, newSize), without reallocation when newSize <= oldCapacity.
C8_ResizeGrows ==
    \A c \in Arr, newSize \in 0..MaxN, value \in Values, base \in Bases :
        \A g \in Garbage(c) :
            LET r == resize(This(c), newSize, value, base, g) IN
            (Callable(c) /\ newSize > size(c) /\ Feasible(r, base)) =>
                /\ r.tail - r.head = newSize
                /\ \A i \in 1..newSize :
                      ElemsOf(r)[i] = IF i <= size(c) THEN Elems(c)[i] ELSE value
                /\ r.tailCap - r.head = Max(capacity(c), newSize)
                /\ newSize <= capacity(c) =>
                      CallsOf(r.heap.calls, "allocate") = <<>>

\* what C9 claims of r, the container a shrink of c to newSize returns
Shrunk(c, newSize, r) ==
    /\ r.heap.calls = DestroyCalls(head[c], size(c), newSize)
    /\ ~Undefined(This(c), r)
    /\ r.tail - r.head = newSize
    /\ \A i \in 1..newSize : ElemsOf(r)[i] = Elems(c)[i]
    /\ r.head = head[c] /\ r.tailCap = tailCap[c]
    /\ r.heap.allocs = allocs

C10_MoveAssignReleases ==
    \A a \in Arr, b \in Arr :
        LET m == assign_move(This(b), This(a)) IN
        (Callable(a) /\ Callable(b) /\ a # b) =>
            /\ CallsOf(m.this.heap.calls, "destroy")
                  = DestroyCalls(head[b], size(b), 0)
            /\ head[b] # NULL => m.this.heap.allocs[head[b]] = NoAlloc

\* C11: a copy-constructed container is size-tight: its buffer is allocated
\* for other.size() elements and capacity() == size() == other.size().
C11_CopyConstructIsSizeTight ==
    \A b \in Arr, other \in Arr, base \in Bases : \A g \in Garbage(other) :
        LET r == ctor_copy(This(b), This(other), base, g) IN
        (Callable(other) /\ Running /\ ~alive[b] /\ Feasible(r, base)) =>
            /\ r.heap.allocs[r.head] = size(other)
            /\ r.tail - r.head = size(other)
            /\ r.tailCap - r.head = size(other)

\* what C12 claims of r, the container c is left as by an operation that threw
Untouched(c, r) ==
    /\ r.head = head[c] /\ r.tail = tail[c] /\ r.tailCap = tailCap[c]
    /\ ElemsOf(r) = Elems(c)
    /\ r.heap.allocs = allocs

\* C12: when allocate or a construct throws during push_back, reserve, a
\* growing resize or copy-assignment, the container is as before the
\* operation and nothing the operation allocated or constructed is left.
C12_StrongGuarantee ==
    \A c \in Arr, base \in Bases, n \in 0..MaxN, value \in Values :
        Callable(c) =>
            /\ \A k \in reserve_throwers(This(c), n) :
                  LET r == reserve_throw(This(c), n, base, 1, k) IN
                  Feasible(r, base) => Untouched(c, r)
            /\ \A k \in resize_throwers(This(c), n) :
                  LET r == resize_throw(This(c), n, value, base, 1, k) IN
                  Feasible(r, base) => Untouched(c, r)
            /\ \A k \in push_back_throwers(This(c)) :
                  LET r == push_back_throw(This(c), value, base, 1, k) IN
                  Feasible(r, base) => Untouched(c, r)
            /\ \A other \in Arr \ {c} : \A k \in assign_copy_throwers(This(other)) :
                  LET r == assign_copy_throw(This(c), This(other), base, 1, k) IN
                  (Callable(other) /\ Feasible(r, base)) => Untouched(c, r)

\* C13: after a = a the container has the size and the elements it had, in
\* order, and its previous allocation is not left outstanding.
C13_SelfAssignmentIsNoOp ==
    \A a \in Arr, base \in Bases : \A g \in Garbage(a) :
        LET r == assign_copy(This(a), This(a), TRUE, base, g) IN
        (Callable(a) /\ Feasible(r, base)) =>
            /\ r.tail - r.head = size(a)
            /\ ElemsOf(r) = Elems(a)
            /\ head[a] # NULL => r.heap.allocs[head[a]] = NoAlloc

\* no two live containers have the same non-sentinel start of storage
UniqueOwner ==
    \A c \in Arr, d \in Arr :
        (c # d /\ alive[c] /\ alive[d] /\ head[c] # NULL) => head[c] # head[d]

\* a step that hands c's buffer to another container resets c to empty
OwnerChange ==
    \A c \in Arr, d \in Arr :
        (c # d /\ head[c] # NULL /\ head'[d] = head[c]) =>
            head'[c] = NULL /\ tail'[c] = NULL /\ tailCap'[c] = NULL

\* C14: no two live containers ever have the same non-sentinel start of
\* storage, and a buffer passes from one container to another only by a
\* move, which resets the source to empty.
C14_UniqueOwnership == []UniqueOwner /\ [][OwnerChange]_vars

\* a copy of a two-element container: both hold a buffer
C14_Witness ==
    /\ copied # NoCopy /\ ~ub
    /\ size(copied.src) = 2
    /\ head[copied.src] # NULL /\ head[copied.dst] # NULL

\* C15: every container is the empty sentinel or has head <= tail <= tailCap,
\* after any sequence of public operations.
C15_CursorInvariant ==
    \A c \in Arr :
        \/ head[c] = NULL /\ tail[c] = NULL /\ tailCap[c] = NULL
        \/ head[c] # NULL /\ head[c] <= tail[c] /\ tail[c] <= tailCap[c]

\* the cursor invariant in the states no undefined step produced
CursorsWhileDefined == Running => C15_CursorInvariant

\* C16: a reallocation copies the live elements in order into the new
\* buffer, then destroys each old element once and deallocates the old
\* buffer once.
C16_ReallocReleasesOldBuffer ==
    \A c \in Arr, newCapacity \in 0..MaxN, base \in Bases : \A g \in Garbage(c) :
        LET r == Realloc(This(c), newCapacity, base, g) IN
        (Callable(c) /\ newCapacity >= size(c) /\ Feasible(r, base)) =>
            /\ ElemsOf(r) = Elems(c)
            /\ r.tailCap - r.head = newCapacity
            /\ Len(CallsOf(r.heap.calls, "destroy")) = size(c)
            /\ head[c] # NULL => r.heap.allocs[head[c]] = NoAlloc

\* C17: b = a allocates a buffer of a.size() elements and copies into it,
\* then destroys b's previous elements and deallocates b's previous
\* allocation; afterwards b.capacity() == a.size().
C17_CopyAssignReleasesPrevious ==
    \A a \in Arr, b \in Arr, base \in Bases : \A g \in Garbage(a) :
        LET r == assign_copy(This(b), This(a), FALSE, base, g) IN
        (Callable(a) /\ Callable(b) /\ a # b /\ Feasible(r, base)) =>
            /\ Head(r.heap.calls) = <<"allocate", base, size(a)>>
            /\ r.tailCap - r.head = size(a)
            /\ Len(CallsOf(r.heap.calls, "destroy")) = size(b)
            /\ head[b] # NULL => r.heap.allocs[head[b]] = NoAlloc

\* the capacities the spec lists for push_back from empty
Schedule == <<0, 1, 2, 4, 7, 11, 17>>

\* what C18 claims of r, the container push_back returns for c
Grown(c, r) ==
    /\ (CallsOf(r.heap.calls, "allocate") # <<>>) = (size(c) = capacity(c))
    /\ size(c) = capacity(c) =>
          r.tailCap - r.head = capacity(c) + (capacity(c) \div 2) + 1
    /\ size(c) < capacity(c) =>
          r.tailCap - r.head = capacity(c) /\ r.head = head[c]

\* C18: push_back reallocates exactly when size() == capacity(), then to
\* capacity c + floor(c/2) + 1 (0, 1, 2, 4, 7, 11, 17 from empty), and
\* otherwise keeps the capacity; N push_back calls from empty relocate at
\* most 3N elements.
C18_GrowthSchedule ==
    /\ \A c \in Arr, value \in Values, base \in Bases : \A g \in Garbage(c) :
          LET r == push_back(This(c), value, base, g) IN
          (Callable(c) /\ Feasible(r, base)) => Grown(c, r)
    /\ \A k \in 1..Len(Schedule) : CapacityAfter(k - 1) = Schedule[k]
    /\ \A N \in 0..MaxPushes : Relocations(0, 0, 0, N) <= 3 * N

\* a full container of one element, which push_back moves to a buffer of two
C18_Witness ==
    \E c \in Arr, base \in Bases :
        LET r == push_back(This(c), 1, base, 1) IN
        /\ Callable(c) /\ size(c) = 1 /\ capacity(c) = 1
        /\ Feasible(r, base)
        /\ r.tailCap - r.head = 2 /\ r.head # head[c]
        /\ Grown(c, r)

\* cs holds neither an allocate of zero elements nor a deallocate of nullptr
NoEmptyRequest(cs) ==
    \A k \in 1..Len(cs) :
        /\ ~(cs[k][1] = "allocate" /\ cs[k][3] = 0)
        /\ ~(cs[k][1] = "deallocate" /\ cs[k][2] = NULL)

\* C19: a container with size() == capacity() == 0 is the sentinel, and no
\* operation calls allocate(0) or deallocate on the sentinel.
C19_EmptyHoldsNoAllocation ==
    /\ \A c \in Arr :
          (Callable(c) /\ size(c) = 0 /\ capacity(c) = 0) => head[c] = NULL
    /\ \A c \in Arr, other \in Arr, base \in Bases, value \in Values :
          (Running /\ Callable(other) /\ other # c) =>
              /\ NoEmptyRequest(ctor_fill(This(c), 0, value, base).heap.calls)
              /\ NoEmptyRequest(ctor_copy(This(c), This(other), base, 1).heap.calls)
              /\ NoEmptyRequest(
                     assign_copy(This(c), This(other), FALSE, base, 1).heap.calls)
              /\ NoEmptyRequest(clear(This(c)).heap.calls)
              /\ NoEmptyRequest(Clear(This(c)).heap.calls)

\* the element count of the allocation c holds
Allocated(c) == IF head[c] = NULL THEN 0 ELSE allocs[head[c]]

\* C20: capacity() is the element count passed to the allocate call that
\* produced the buffer held (0 when none is held); so push_back and resize
\* construct inside the allocation and deallocate is passed the allocated
\* count.
C20_CapacityIsAllocatedCount ==
    \A c \in Arr :
        Callable(c) =>
            /\ capacity(c) = Allocated(c)
            /\ ~Undefined(This(c), clear(This(c)))
            /\ \A value \in Values, base \in Bases, n \in 0..MaxN :
                  LET r == push_back(This(c), value, base, 1)
                      u == resize(This(c), n, value, base, 1)
                  IN /\ Feasible(r, base) => ~Undefined(This(c), r)
                     /\ Feasible(u, base) => ~Undefined(This(c), u)

====
